---- MODULE Spec2Model ----
(***************************************************************************)
(* Model of the chat front end of the Bible AI assistant:                  *)
(*   frontend/src/app/page.tsx          Home (state + handleSend)          *)
(*   frontend/src/components/ChatInput  (in WelcomeScreen.tsx, l. 54-119)  *)
(*   frontend/src/components/WelcomeScreen, ChatMessage, SettingsPanel     *)
(*   frontend/src/lib/api.ts            sendMessage, clearSession          *)
(*                                                                         *)
(* React state is modelled by the variables messages, isLoading,           *)
(* sessionId, preferences and error.  The values a handler reads are those *)
(* of the render that created it (the useCallback closure and the props);  *)
(* they are kept in `view`.  Updates made inside a DOM event handler are   *)
(* committed before the next event is dispatched, so such an action ends   *)
(* with the commit.  Updates made after an await are committed by a later  *)
(* Render step, and events may be handled before it with the old closure.  *)
(*                                                                         *)
(* Texts are sequences of one-character strings so that trim() is          *)
(* computed.  Message timestamps are not modelled (nothing reads them).    *)
(***************************************************************************)
EXTENDS Integers, Sequences, FiniteSets, TLC

VARIABLES
    messages,     \* page.tsx:17  Message[]
    isLoading,    \* page.tsx:18
    sessionId,    \* page.tsx:19  string | null
    preferences,  \* page.tsx:20  UserPreferences
    error,        \* page.tsx:25  string | null
    view,         \* values captured by the last committed render
    textarea,     \* ChatInput textareaRef.current.value
    open,         \* SettingsPanel open
    inflight,     \* sendMessage calls whose fetch has not settled
    uuid,         \* number of crypto.randomUUID() results handed out
    hist,         \* history of the run; the actions read it only to bound the run
    stalled,      \* the outstanding fetch will never settle (the server is silent)
    clearCalls    \* results of the clearSession calls made so far

vars == <<messages, isLoading, sessionId, preferences, error, view, textarea,
          open, inflight, uuid, hist, stalled, clearCalls>>

pageVars == <<messages, isLoading, sessionId, preferences, error, view,
              textarea, open, inflight, uuid, hist, stalled>>

-----------------------------------------------------------------------------
(* Bounds *)

\* Number of sends the user gets accepted in one run.
MaxSends == 2

\* Number of clearSession calls in one run.
MaxClearCalls == 2

-----------------------------------------------------------------------------
(* Values *)

\* JavaScript null.
Null == "NULL"

\* Texts the user may have in the textarea: "", " ", "a", " a ".
Texts == { <<>>, <<" ">>, <<"a">>, <<" ", "a", " ">> }

\* WelcomeScreen.tsx:9-16; the six literal questions are abstracted to one
\* non-blank text without surrounding blanks.
SUGGESTIONS == { <<"q">> }

\* Session ids the server may issue.
SessionIds == { "s1", "s2" }

\* SettingsPanel <option> values (part_001:43, 57-58, 72-77).
TranslationKrOptions == { "KRV" }    \* the option value is the Korean name of the KRV
TranslationEnOptions == { "ESV", "KJV" }
DenominationOptions ==
    { "", "Presbyterian", "Baptist", "Methodist", "Pentecostal", "Non-denominational" }
Denominations == DenominationOptions \ { "" }

\* String.prototype.trim on a text.
RECURSIVE TrimLeft(_)
TrimLeft(t) ==
    IF t # <<>> /\ Head(t) = " " THEN TrimLeft(Tail(t)) ELSE t

RECURSIVE TrimRight(_)
TrimRight(t) ==
    IF t # <<>> /\ t[Len(t)] = " " THEN TrimRight(SubSeq(t, 1, Len(t) - 1)) ELSE t

Trim(t) == TrimRight(TrimLeft(t))

-----------------------------------------------------------------------------
(* The server and the network, as sendMessage sees them *)

\* The bodies of a 200 answer of POST /api/chat (ChatResponse, api.ts:11-19).
\* The engine attaches source metadata in grounded ("rag") mode only.
ChatResponses ==
    { [response |-> "answer", session_id |-> s, sources |-> <<"John 3:16 (KJV)">>,
       retrieval_mode |-> "rag"] : s \in SessionIds }
    \cup
    { [response |-> "answer", session_id |-> s, sources |-> <<>>,
       retrieval_mode |-> "conversational"] : s \in SessionIds }

\* What fetch(`${API_BASE}/chat`) settles with: a rejection (no connection;
\* the message is the browser's), or a Response with a status and a body.
\* json tells whether the body parses as JSON, shape what it parses to.
ChatFetchOutcomes ==
    { [kind |-> "reject", message |-> <<"Failed to fetch">>] }
    \cup { [kind |-> "response", status |-> "200", ok |-> TRUE, json |-> TRUE,
            shape |-> "ChatResponse", body |-> b] : b \in ChatResponses }
    \cup { [kind |-> "response", status |-> "200", ok |-> TRUE, json |-> FALSE,
            shape |-> "text", body |-> "<html>"] }
    \cup { [kind |-> "response", status |-> "500", ok |-> FALSE, json |-> TRUE,
            shape |-> "detail", body |-> "{detail}"] }

\* The request failed: no connection, a non-OK status, or an unreadable body.
Failed(outcome) == outcome.kind = "reject" \/ ~outcome.ok \/ ~outcome.json

\* What `throw e` / a rejected promise carries.
Thrown(message) == [ok |-> FALSE, err |-> [isError |-> TRUE, message |-> message]]

\* response.json() of a body: the parsed value, or a SyntaxError.
\* A JSON body that is no ChatResponse parses to an object without its fields.
Json(outcome) ==
    IF ~outcome.json THEN Thrown(<<"Unexpected token">>)
    ELSE IF outcome.shape = "ChatResponse"
         THEN [ok |-> TRUE, value |-> outcome.body]
         ELSE [ok |-> TRUE,
               value |-> [response |-> Null, session_id |-> Null, sources |-> Null,
                          retrieval_mode |-> Null]]

\* sendMessage without the response.ok test.
SendMessageNoStatusCheck(outcome) ==
    IF outcome.kind = "reject" THEN Thrown(outcome.message) ELSE Json(outcome)

\* api.ts:41-54 sendMessage, from the settled fetch to its own settlement:
\* a rejected fetch propagates, a non-OK status throws, else json().
sendMessage(outcome) ==
    IF outcome.kind = "reject" THEN Thrown(outcome.message)
    ELSE IF ~outcome.ok
         THEN Thrown(<<"Server error", outcome.status, outcome.body>>)
         ELSE Json(outcome)

\* err.message.includes(s), on messages kept as sequences of fragments.
Includes(message, s) == \E i \in 1..Len(message) : message[i] = s

-----------------------------------------------------------------------------
(* Home: page.tsx *)

\* What a render captures: the closure of handleSend (page.tsx:82), the props
\* of ChatInput (136) and SettingsPanel (110), and hasMessages (88, 113).
Commit(l, s, p, m) ==
    [isLoading |-> l, sessionId |-> s, preferences |-> p, hasMessages |-> Len(m) > 0]

DefaultPreferences ==
    [translation_kr |-> "KRV", translation_en |-> "ESV", denomination |-> Null]

Init ==
    /\ messages = <<>>
    /\ isLoading = FALSE
    /\ sessionId = Null
    /\ preferences = DefaultPreferences
    /\ error = Null
    /\ view = Commit(FALSE, Null, DefaultPreferences, <<>>)
    /\ textarea = <<>>
    /\ open = FALSE
    /\ inflight = <<>>
    /\ uuid = 0
    /\ hist = [sent |-> 0, okCount |-> 0, lastOkId |-> Null, outcome |-> "none",
               pre |-> <<>>, preSid |-> Null, text |-> <<>>, base |-> 0,
               retry |-> FALSE, refused |-> FALSE, blank |-> FALSE]
    /\ stalled = FALSE
    /\ clearCalls = <<>>

\* The user message with the text as it was typed.
UserMsgRaw(text) == [id |-> uuid + 1, role |-> "user", content |-> text]

\* page.tsx:45-50
UserMsg(text) == [id |-> uuid + 1, role |-> "user", content |-> Trim(text)]

\* The request sent without the stored session id.
ChatRequestNoSession(text) ==
    [message |-> Trim(text), session_id |-> Null, preferences |-> view.preferences]

\* page.tsx:55-59: the payload, from the closure's sessionId and preferences.
ChatRequest(text) ==
    [message |-> Trim(text), session_id |-> view.sessionId,
     preferences |-> view.preferences]

\* handleSend without setError(null).
ErrorOnSendKept == error

\* page.tsx:42
ErrorOnSend == Null

\* handleSend without setIsLoading(true).
IsLoadingOnSendKept == isLoading

\* page.tsx:52
IsLoadingOnSend == TRUE

\* page.tsx:39-59, up to the await: the guard, the three state updates, the
\* request; the render they cause is committed before the next event.
handleSend(text) ==
    IF Trim(text) = <<>> \/ view.isLoading
    THEN /\ hist' = [hist EXCEPT !.blank = @ \/ Trim(text) = <<>>]
         /\ UNCHANGED <<messages, isLoading, sessionId, preferences, error, view,
                        inflight, uuid>>
    ELSE /\ error' = ErrorOnSend
         /\ messages' = Append(messages, UserMsg(text))
         /\ isLoading' = IsLoadingOnSend
         /\ inflight' = Append(inflight, ChatRequest(text))
         /\ uuid' = uuid + 1
         /\ view' = Commit(isLoading', sessionId, preferences, messages')
         /\ hist' = [hist EXCEPT
                 !.sent = @ + 1,
                 !.outcome = "pending",
                 !.pre = messages,
                 !.preSid = sessionId,
                 !.text = Trim(text),
                 !.retry = (hist.outcome = "failed" /\ hist.text = Trim(text)),
                 !.base = IF hist.outcome = "failed" /\ hist.text = Trim(text)
                          THEN @ ELSE Len(messages)]
         /\ UNCHANGED <<sessionId, preferences>>

\* The bot message with a placeholder source when the response has none.
BotMsgPadded(response) ==
    [id |-> uuid + 1, role |-> "assistant", content |-> response.response,
     sources |-> IF response.sources = <<>> THEN <<"(no source)">> ELSE response.sources,
     retrieval_mode |-> response.retrieval_mode]

\* page.tsx:63-70
BotMsg(response) ==
    [id |-> uuid + 1, role |-> "assistant", content |-> response.response,
     sources |-> response.sources, retrieval_mode |-> response.retrieval_mode]

\* The fragments of a message put together into the one string.
RECURSIVE Join(_)
Join(fragments) ==
    IF fragments = <<>> THEN ""
    ELSE IF Len(fragments) = 1 THEN Head(fragments)
         ELSE Head(fragments) \o " " \o Join(Tail(fragments))

\* page.tsx:73-76
ErrorMessage(err) ==
    IF err.isError /\ Includes(err.message, "Failed to fetch")
    THEN "Cannot connect to server. Please start the backend."
    ELSE Join(<<"An error occurred. Please try again.">>
              \o (IF err.isError THEN err.message ELSE <<"Unknown error">>))

\* The failed turn's user message taken back.
MessagesAfterRollback(result) ==
    IF result.ok THEN Append(messages, BotMsg(result.value))
    ELSE SubSeq(messages, 1, Len(messages) - 1)

\* The bot message put in front.
MessagesAfterPrepend(result) ==
    IF result.ok THEN <<BotMsg(result.value)>> \o messages ELSE messages

\* The bot message appended twice (an updater that runs twice).
MessagesAfterTwice(result) ==
    IF result.ok
    THEN Append(Append(messages, BotMsg(result.value)), BotMsg(result.value))
    ELSE messages

\* page.tsx:71
MessagesAfter(result) ==
    IF result.ok THEN Append(messages, BotMsg(result.value)) ELSE messages

\* page.tsx:61
SessionIdAfter(result) ==
    IF result.ok THEN result.value.session_id ELSE sessionId

\* page.tsx:72-77
ErrorAfter(result) ==
    IF result.ok THEN error ELSE ErrorMessage(result.err)

\* setIsLoading(false) at the end of the try block instead of in finally.
IsLoadingAfterNoFinally(result) == IF result.ok THEN FALSE ELSE isLoading

\* page.tsx:78-80
IsLoadingAfter(result) == FALSE

RemoveAt(s, i) == SubSeq(s, 1, i - 1) \o SubSeq(s, i + 1, Len(s))

\* page.tsx:54-80 after the await: the fetch of request i settles with
\* `outcome`, sendMessage resolves or rejects, and handleSend's try / catch /
\* finally run.  The updates are committed by a later Render.
Settle(i, outcome) ==
    LET result == sendMessage(outcome) IN
    /\ ~stalled
    /\ inflight' = RemoveAt(inflight, i)
    /\ sessionId' = SessionIdAfter(result)
    /\ messages' = MessagesAfter(result)
    /\ error' = ErrorAfter(result)
    /\ isLoading' = IsLoadingAfter(result)
    /\ uuid' = IF result.ok THEN uuid + 1 ELSE uuid
    /\ hist' = IF Failed(outcome)
               THEN [hist EXCEPT !.outcome = "failed"]
               ELSE [hist EXCEPT !.okCount = @ + 1, !.outcome = "ok",
                                 !.lastOkId = outcome.body.session_id]
    /\ UNCHANGED <<preferences, view, textarea, open, stalled, clearCalls>>

\* Some outstanding request settles.
SettleSome ==
    \E i \in 1..Len(inflight), outcome \in ChatFetchOutcomes : Settle(i, outcome)

\* api.ts:42-46: the fetch is given no signal and no timeout, so when the
\* server accepts the request and never answers, the promise stays pending.
Stall ==
    /\ Len(inflight) > 0
    /\ ~stalled
    /\ stalled' = TRUE
    /\ UNCHANGED <<messages, isLoading, sessionId, preferences, error, view,
                   textarea, open, inflight, uuid, hist, clearCalls>>

\* The render scheduled by the updates of Settle is committed.
Render ==
    /\ view # Commit(isLoading, sessionId, preferences, messages)
    /\ view' = Commit(isLoading, sessionId, preferences, messages)
    /\ UNCHANGED <<messages, isLoading, sessionId, preferences, error, textarea,
                   open, inflight, uuid, hist, stalled, clearCalls>>

-----------------------------------------------------------------------------
(* WelcomeScreen and ChatInput: components/WelcomeScreen.tsx *)

\* WelcomeScreen.tsx:37-47: a suggestion button is clicked.  The screen is
\* rendered only while the list is empty (page.tsx:113-114).
WelcomeAsk(s) ==
    /\ ~view.hasMessages
    /\ hist.sent < MaxSends
    /\ handleSend(s)
    /\ UNCHANGED <<textarea, open, stalled, clearCalls>>

\* handleSend is handed out as onAsk (page.tsx:114) and onSend (136): a
\* caller invokes it with any text.
OnSendCalled(text) ==
    /\ hist.sent < MaxSends
    /\ handleSend(text)
    /\ UNCHANGED <<textarea, open, stalled, clearCalls>>

\* The user edits the textarea (it is never disabled).
TypeText(t) ==
    /\ textarea' = t
    /\ UNCHANGED <<messages, isLoading, sessionId, preferences, error, view, open,
                   inflight, uuid, hist, stalled, clearCalls>>

\* WelcomeScreen.tsx:67-75 (ChatInput.handleSend); disabled is the prop of
\* page.tsx:136, onSend the handleSend of the same render.
ChatInput_handleSend ==
    LET value == Trim(textarea) IN
    IF value = <<>> \/ view.isLoading
    THEN /\ hist' = [hist EXCEPT !.refused = @ \/ (value # <<>> /\ Len(inflight) > 0),
                                 !.blank = @ \/ value = <<>>]
         /\ UNCHANGED <<messages, isLoading, sessionId, preferences, error, view,
                        textarea, inflight, uuid>>
    ELSE /\ handleSend(value)
         /\ textarea' = <<>>

\* WelcomeScreen.tsx:107-109: the send button, which the DOM disables.
ChatInputClick ==
    /\ ~view.isLoading
    /\ hist.sent < MaxSends
    /\ ChatInput_handleSend
    /\ UNCHANGED <<open, stalled, clearCalls>>

\* WelcomeScreen.tsx:77-82: Enter without Shift in the textarea.
ChatInputEnter ==
    /\ hist.sent < MaxSends
    /\ ChatInput_handleSend
    /\ UNCHANGED <<open, stalled, clearCalls>>

-----------------------------------------------------------------------------
(* ChatMessage: components/ChatMessage.tsx *)

\* ChatMessage.tsx:48-59: the source tags rendered under a message.
SourceTags(message) ==
    IF message.role = "user" THEN <<>>
    ELSE IF message.sources # Null /\ Len(message.sources) > 0
         THEN message.sources
         ELSE <<>>

-----------------------------------------------------------------------------
(* SettingsPanel: unnamed/part_001 *)

\* part_001:22: the panel is opened or closed.
ToggleSettings ==
    /\ open' = ~open
    /\ UNCHANGED <<messages, isLoading, sessionId, preferences, error, view,
                   textarea, inflight, uuid, hist, stalled, clearCalls>>

\* The selected value passed on as it is.
DenominationValueRaw(v) == v

\* part_001:68: e.target.value || null
DenominationValue(v) == IF v = "" THEN Null ELSE v

\* update that spreads the default preferences instead of the current ones.
updateFromDefaults(key, value) ==
    /\ open
    /\ preferences' = [DefaultPreferences EXCEPT ![key] = value]
    /\ view' = [view EXCEPT !.preferences = preferences']
    /\ UNCHANGED <<messages, isLoading, sessionId, error, textarea, open,
                   inflight, uuid, hist, stalled, clearCalls>>

\* part_001:15-17, with onChange = setPreferences (page.tsx:110); the
\* render it causes is committed before the next event.
update(key, value) ==
    /\ open
    /\ preferences' = [view.preferences EXCEPT ![key] = value]
    /\ view' = [view EXCEPT !.preferences = preferences']
    /\ UNCHANGED <<messages, isLoading, sessionId, error, textarea, open,
                   inflight, uuid, hist, stalled, clearCalls>>

\* part_001:37-44
SelectTranslationKr(v) == update("translation_kr", v)

\* part_001:51-59
SelectTranslationEn(v) == update("translation_en", v)

\* part_001:66-78
SelectDenomination(v) == update("denomination", DenominationValue(v))

-----------------------------------------------------------------------------
(* api.ts: clearSession *)

\* What fetch of DELETE /api/session/{id} settles with.
ClearFetchOutcomes ==
    { [kind |-> "reject", status |-> "none", ok |-> FALSE] }
    \cup { [kind |-> "response", status |-> st, ok |-> (st \in { "200", "204" })] :
             st \in { "200", "204", "404", "500" } }

\* clearSession that tests the status as checkHealth does.
clearSessionChecked(outcome) == outcome.kind = "response" /\ outcome.ok

\* api.ts:62-64: resolves (TRUE) unless the fetch itself rejects; the
\* Response is not looked at.
clearSession(outcome) == outcome.kind = "response"

\* A caller awaits clearSession(sid); the page itself never calls it.
ClearSession(sid, outcome) ==
    /\ Len(clearCalls) < MaxClearCalls
    /\ clearCalls' = Append(clearCalls,
           [sessionId |-> sid, kind |-> outcome.kind, status |-> outcome.status,
            resolved |-> clearSession(outcome)])
    /\ UNCHANGED pageVars

-----------------------------------------------------------------------------
(* Specifications *)

Next ==
    \/ \E s \in SUGGESTIONS : WelcomeAsk(s)
    \/ \E t \in Texts : TypeText(t)
    \/ ChatInputClick
    \/ ChatInputEnter
    \/ SettleSome
    \/ Stall
    \/ Render
    \/ ToggleSettings
    \/ \E v \in TranslationKrOptions : SelectTranslationKr(v)
    \/ \E v \in TranslationEnOptions : SelectTranslationEn(v)
    \/ \E v \in DenominationOptions : SelectDenomination(v)

Spec == Init /\ [][Next]_vars

\* A scheduled render is committed, and a fetch that the server has not
\* left unanswered settles.
LiveSpec == Spec /\ WF_vars(Render) /\ WF_vars(SettleSome)

\* The page with handleSend also called directly, with any text.
NextCalls == Next \/ \E t \in Texts : OnSendCalled(t)

SpecCalls == Init /\ [][NextCalls]_vars

NextApi == \E sid \in SessionIds, outcome \in ClearFetchOutcomes : ClearSession(sid, outcome)

SpecApi == Init /\ [][NextApi]_vars

-----------------------------------------------------------------------------
(* Properties *)

IsUser(m) == m.role = "user"
IsAssistant(m) == m.role = "assistant"
Count(seq, Test(_)) == Len(SelectSeq(seq, Test))
Roles(seq) == [i \in 1..Len(seq) |-> seq[i].role]
IsPrefix(s, t) == Len(s) <= Len(t) /\ SubSeq(t, 1, Len(s)) = s

\* A step that issues a request.
Issues == Len(inflight') > Len(inflight)

\* A step in which the outstanding request settles as a failure.
Fails == hist.outcome = "pending" /\ hist'.outcome = "failed"

\* C1: every request the page issues carries as session_id the id of the most
\* recent successful response (null before the first one), and a failed
\* request leaves the stored session id unchanged.
C1_SessionIdCarried ==
    [][ /\ Issues => inflight'[Len(inflight')].session_id = hist.lastOkId
        /\ Fails => sessionId' = sessionId ]_vars

\* A second request is outstanding under the id the first response issued.
C1_Witness ==
    /\ Len(inflight) = 1
    /\ hist.okCount = 1
    /\ inflight[1].session_id = hist.lastOkId
    /\ inflight[1].session_id \in SessionIds

\* C2: when a chat request fails (no connection, non-OK status), handleSend
\* sets error to a non-null message and appends no assistant message.
C2_FailureReported ==
    [][ Fails => /\ error' # Null
                 /\ Count(messages', IsAssistant) = Count(messages, IsAssistant) ]_vars

\* A request answered with status 500 has settled: the error is shown and the
\* list ends with the user's message.
C2_Witness ==
    /\ hist.outcome = "failed"
    /\ error # Null
    /\ error = "An error occurred. Please try again. Server error 500 {detail}"
    /\ messages[Len(messages)].role = "user"

\* C3 (as claimed): after a failed handleSend the message list and the session
\* id equal their values before the send, and after a retry with the same text
\* that user turn is in the list exactly once.
C3_FailureLeavesStateUnmodified ==
    /\ hist.outcome = "failed" => (messages = hist.pre /\ sessionId = hist.preSid)
    /\ hist.retry =>
         Cardinality({ i \in (hist.base + 1)..Len(messages) :
                         IsUser(messages[i]) /\ messages[i].content = hist.text }) = 1

\* C4: at most one request is in flight, and a send event that arrives while
\* a request is outstanding issues no request and appends no user message.
C4_OneRequestInFlight ==
    [][ /\ Len(inflight') <= 1
        /\ Len(inflight) > 0 =>
             /\ ~Issues
             /\ Count(messages', IsUser) = Count(messages, IsUser) ]_vars

\* Enter was pressed on a non-blank text while a request was outstanding,
\* and still only that request is in flight.
C4_Witness ==
    /\ hist.refused
    /\ Len(inflight) = 1
    /\ Trim(textarea) # <<>>

\* C5: isLoading is set back to false whenever the request settles, with a
\* response or an error: the page is never loading with no request outstanding.
C5_LoadingReleased == isLoading => Len(inflight) > 0

\* A request has failed and the page is no longer loading.
C5_Witness ==
    /\ hist.outcome = "failed"
    /\ ~isLoading
    /\ view.isLoading
    /\ inflight = <<>>

\* C6: the message list only grows at its end: the list before a step is a
\* prefix of the list after it.
C6_AppendOnly == [][IsPrefix(messages, messages')]_vars

\* A failed turn followed by an answered one.
C6_Witness ==
    /\ Len(messages) = 3
    /\ Roles(messages) = <<"user", "user", "assistant">>

\* C7: after two sends that each got a successful response the list has the
\* 4 turns user, assistant, user, assistant, and the second request was issued
\* with the first two turns in the list.
C7_TwoExchanges ==
    (hist.sent = 2 /\ hist.okCount = 2) =>
        /\ Len(messages) = 4
        /\ Roles(messages) = <<"user", "assistant", "user", "assistant">>
        /\ hist.pre = SubSeq(messages, 1, 2)

C7_Witness ==
    /\ hist.sent = 2
    /\ hist.okCount = 2
    /\ Len(messages) = 4

C9_ClearAlwaysResolves ==
    \A i \in 1..Len(clearCalls) :
        clearCalls[i].kind = "response" => clearCalls[i].resolved

\* The same session cleared twice, the second answer being not-found.
C9_Witness ==
    /\ Len(clearCalls) = 2
    /\ clearCalls[1].sessionId = clearCalls[2].sessionId
    /\ clearCalls[1].status = "200"
    /\ clearCalls[2].status = "404"
    /\ clearCalls[2].resolved

C11_LoadingEnds == isLoading ~> ~isLoading

\* The number of accepted sends whose request has failed.
FailedSends ==
    hist.sent - hist.okCount - (IF hist.outcome = "pending" THEN 1 ELSE 0)

\* C12: every assistant message directly follows a user message, so the list
\* starts with a user message, no two assistant messages are adjacent and
\* there are at most as many assistant as user messages; while a request is
\* outstanding the list ends with its user message; two user messages are
\* adjacent only after a failed request.
C12_AssistantFollowsUser ==
    /\ messages # <<>> => IsUser(messages[1])
    /\ \A i \in 1..Len(messages) :
          IsAssistant(messages[i]) => (i > 1 /\ IsUser(messages[i - 1]))
    /\ Count(messages, IsAssistant) <= Count(messages, IsUser)
    /\ Len(inflight) > 0 =>
          /\ IsUser(messages[Len(messages)])
          /\ messages[Len(messages)].content = inflight[1].message
    /\ (\E i \in 1..(Len(messages) - 1) : IsUser(messages[i]) /\ IsUser(messages[i + 1]))
          => FailedSends > 0

\* An answered turn followed by a failed one.
C12_Witness ==
    /\ Roles(messages) = <<"user", "assistant", "user">>
    /\ hist.outcome = "failed"

\* A text that is not empty and has no blank at either end.
Trimmed(t) == t # <<>> /\ t[1] # " " /\ t[Len(t)] # " "

\* A step that handles a send of a blank text / a send refused while loading.
BlankSend == hist'.blank /\ ~hist.blank
RefusedSend == hist'.refused /\ ~hist.refused

\* C13: a send of an empty or whitespace-only text changes nothing (no
\* message, no request, error, isLoading and sessionId as before); every user
\* message and every request holds a trimmed, non-empty text; ChatInput leaves
\* the textarea as it is on the paths where it does not call onSend.
C13_BlankNeverSent ==
    /\ [](/\ \A i \in 1..Len(messages) :
                IsUser(messages[i]) => Trimmed(messages[i].content)
          /\ \A i \in 1..Len(inflight) : Trimmed(inflight[i].message))
    /\ [][ /\ BlankSend => UNCHANGED <<messages, inflight, error, isLoading,
                                       sessionId, textarea>>
           /\ RefusedSend => textarea' = textarea
           /\ (Issues /\ textarea' # textarea) => textarea' = <<>> ]_vars

\* A blank text was sent to no effect, and a text typed with blanks around it
\* is in the list and in the request without them.
C13_Witness ==
    /\ hist.blank
    /\ textarea = <<" ", "a", " ">>
    /\ Len(messages) = 1
    /\ messages[1].content = <<"a">>
    /\ Len(inflight) = 1
    /\ inflight[1].message = <<"a">>

\* C14: an accepted send sets error to null before its request is issued,
\* error becomes non-null only when that request fails, and so error is null
\* whenever the last accepted send is outstanding or has succeeded.
C14_ErrorOfLastSend ==
    /\ [](hist.outcome \in { "none", "pending", "ok" } => error = Null)
    /\ [][ /\ Issues => error' = Null
           /\ (error' # Null /\ error' # error) => Fails ]_vars

\* A failed send was followed by a successful one, which cleared the error.
C14_Witness ==
    /\ hist.sent = 2
    /\ hist.okCount = 1
    /\ hist.outcome = "ok"
    /\ inflight = <<>>
    /\ error = Null

PreferenceKeys == { "translation_kr", "translation_en", "denomination" }

\* C15: a settings change alters the preferences at one key only and leaves
\* the message list, the session id, isLoading, error and the requests in
\* flight as they are; a request carries the preferences current when it
\* was sent.
C15_SettingsFrame ==
    [][ /\ preferences' # preferences =>
             /\ Cardinality({ k \in PreferenceKeys : preferences'[k] # preferences[k] }) = 1
             /\ UNCHANGED <<messages, sessionId, isLoading, error, inflight>>
        /\ Issues => inflight'[Len(inflight')].preferences = preferences ]_vars

\* The settings were changed twice while a request sent under the earlier
\* preferences is still outstanding.
C15_Witness ==
    /\ Len(inflight) = 1
    /\ inflight[1].preferences = [DefaultPreferences EXCEPT !.denomination = "Methodist"]
    /\ preferences = [translation_kr |-> "KRV", translation_en |-> "KJV",
                      denomination |-> "Pentecostal"]
    /\ isLoading

====
